---- MODULE Spec2Model ----
(***************************************************************************)
(* Model of the notebook "Data Scrubbing and Preprocessing.ipynb": the     *)
(* cells are run top to bottom, one cell (or statement group) per action.  *)
(*                                                                         *)
(* Numbers.  Every pandas float is an exact rational <<n, d>> with d > 0   *)
(* in lowest terms; NaN is <<0, 0>>.  Text read from the CSV files is kept *)
(* as the tuple of its fields (an "MM/YYYY" cell is <<m, y>>, an           *)
(* "MM/DD/YYYY" cell is <<m, d, y>>, an empty cell is <<>>); a Timestamp   *)
(* or datetime.date is <<y, m, d>> and NaT is <<0, 0, 0>>.                 *)
(* A DataFrame is a record of columns, each column a sequence over the     *)
(* rows 1..n, plus "index" (for the two reference series) and "dtypes"     *)
(* (for the loan table: int64 or float64 for each imputed column).         *)
(***************************************************************************)
EXTENDS Integers, Sequences, FiniteSets, TLC

VARIABLES pc, Orig, Perf, Rates, HPI, Log_Orig

vars == <<pc, Orig, Perf, Rates, HPI, Log_Orig>>

----------------------------------------------------------------------------
(* Float arithmetic, exact.                                                *)

NaN == <<0, 0>>

isnan(q) == q[2] = 0

RECURSIVE GCD(_, _)
GCD(a, b) == IF b = 0 THEN a ELSE GCD(b, a % b)

Abs(a) == IF a < 0 THEN -a ELSE a

\* the float n/d (d > 0)
Float(n, d) == LET g == GCD(Abs(n), d) IN <<n \div g, d \div g>>

\* an integer literal used as a float
Num(n) == <<n, 1>>

\* a + b, a - b, a / b, a * k : NaN propagates
FAdd(a, b) == IF isnan(a) \/ isnan(b) THEN NaN
              ELSE Float(a[1] * b[2] + b[1] * a[2], a[2] * b[2])

FSub(a, b) == IF isnan(a) \/ isnan(b) THEN NaN
              ELSE Float(a[1] * b[2] - b[1] * a[2], a[2] * b[2])

\* a / b for b > 0 (every divisor of the notebook is a positive number)
FDiv(a, b) == IF isnan(a) \/ isnan(b) THEN NaN
              ELSE Float(a[1] * b[2], a[2] * b[1])

FMul(a, b) == IF isnan(a) \/ isnan(b) THEN NaN
              ELSE Float(a[1] * b[1], a[2] * b[2])

\* a <= b on floats that are not NaN
FLe(a, b) == a[1] * b[2] <= b[1] * a[2]

\* Python 2 round(q, 0) for q >= 0: to the nearest integer, halves away from
\* zero; round(nan, 0) is nan
round(q) == IF isnan(q) THEN NaN ELSE Num((2 * q[1] + q[2]) \div (2 * q[2]))

\* rows of a column
Rows(col) == 1..Len(col)

RECURSIVE SumOver(_, _)
SumOver(col, S) == IF S = {} THEN Num(0)
                   ELSE LET i == CHOOSE k \in S : TRUE
                        IN FAdd(col[i], SumOver(col, S \ {i}))

\* Series.mean() of the rows S of a column: NaN rows are skipped, and the
\* mean of no value is NaN
meanOf(col, S) == LET V == {i \in S : ~isnan(col[i])}
                  IN IF V = {} THEN NaN
                     ELSE FDiv(SumOver(col, V), Num(Cardinality(V)))

mean(col) == meanOf(col, Rows(col))

----------------------------------------------------------------------------
(* 1. Missing values                                                       *)

\* round(v/g, 0)*g for a float v
Coarsen(v, g) == FMul(round(FDiv(v, Num(g))), Num(g))

\* round(table[name].loc[x]/g, 0)*g: in Python 2 the / of a value of an int64
\* column (a column read without a missing value) is the floor division
CoarsenCell(table, name, x, g) ==
    IF table.dtypes[name] = "int64"
    THEN Num((table[name][x][1] \div g) * g)
    ELSE Coarsen(table[name][x], g)

\* Buckets without the substitution of the table mean for a missing value
Buckets_NoSubstitute(table, x, fillVar) ==
    IF fillVar = "CSCORE"
    THEN <<"OCLTV", CoarsenCell(table, "OCLTV", x, 20), "Rate", round(table.ORIG_RT[x])>>
    ELSE <<"FICO", CoarsenCell(table, "CSCORE_B", x, 50), "Rate", round(table.ORIG_RT[x])>>

\* the bucket of row x: the formatted string "OCLTV-{}/Rate-{}" or
\* "FICO-{}/Rate-{}", kept as its parts
Buckets(table, x, fillVar) ==
    IF fillVar = "CSCORE"
    THEN LET OCLTV == CoarsenCell(table, "OCLTV", x, 20)
             Rate  == round(table.ORIG_RT[x])
         IN <<"OCLTV", IF isnan(OCLTV) THEN Coarsen(mean(table.OCLTV), 20)
                                       ELSE OCLTV,
              "Rate", Rate>>
    ELSE LET FICO == CoarsenCell(table, "CSCORE_B", x, 50)
             Rate == round(table.ORIG_RT[x])
         IN <<"FICO", IF isnan(FICO) THEN Coarsen(mean(table.CSCORE_B), 50)
                                     ELSE FICO,
              "Rate", Rate>>

\* x.fillna(x.mean()) on the rows S (one group) of a column, read at row i
fill_mean(col, S, i) == IF isnan(col[i]) THEN meanOf(col, S) ELSE col[i]

\* GroupFill without the grouping: every missing value gets the column mean
GroupFill_Ungrouped(table, fillVar, name) ==
    [i \in Rows(table[name]) |-> fill_mean(table[name], Rows(table[name]), i)]

\* table.groupby(lambda x: Buckets(table, x, fillVar))[name].apply(fill_mean)
GroupFill(table, fillVar, name) ==
    [i \in Rows(table[name]) |->
        fill_mean(table[name],
                  {j \in Rows(table[name]) :
                      Buckets(table, j, fillVar) = Buckets(table, i, fillVar)},
                  i)]

ImputeCSCORE ==
    /\ pc = "impute_cscore"
    /\ Log_Orig' = [Log_Orig EXCEPT
                      !.CSCORE_B = GroupFill(Log_Orig, "CSCORE", "CSCORE_B")]
    /\ pc' = "impute_dti"
    /\ UNCHANGED <<Orig, Perf, Rates, HPI>>

\* ImputeDTI with the bucket keys formed from the credit scores of the file
ImputeDTI_FileScores ==
    /\ pc = "impute_dti"
    /\ Log_Orig' = [Log_Orig EXCEPT
                      !.DTI = GroupFill([Log_Orig EXCEPT !.CSCORE_B = Orig.CSCORE_B],
                                        "DTI", "DTI")]
    /\ pc' = "impute_ocltv"
    /\ UNCHANGED <<Orig, Perf, Rates, HPI>>

ImputeDTI ==
    /\ pc = "impute_dti"
    /\ Log_Orig' = [Log_Orig EXCEPT !.DTI = GroupFill(Log_Orig, "DTI", "DTI")]
    /\ pc' = "impute_ocltv"
    /\ UNCHANGED <<Orig, Perf, Rates, HPI>>

ImputeOCLTV ==
    /\ pc = "impute_ocltv"
    /\ Log_Orig' = [Log_Orig EXCEPT
                      !.OCLTV = GroupFill(Log_Orig, "OCLTV", "OCLTV")]
    /\ pc' = "fill_dti"
    /\ UNCHANGED <<Orig, Perf, Rates, HPI>>

\* Log_Orig['DTI'].fillna(Log_Orig['DTI'].mean())
GlobalFillDTI ==
    /\ pc = "fill_dti"
    /\ Log_Orig' = [Log_Orig EXCEPT
                      !.DTI = [i \in Rows(Log_Orig.DTI) |->
                                 fill_mean(Log_Orig.DTI, Rows(Log_Orig.DTI), i)]]
    /\ pc' = "covariates"
    /\ UNCHANGED <<Orig, Perf, Rates, HPI>>

----------------------------------------------------------------------------
(* 2. Transforming covariates                                              *)

NaT == <<0, 0, 0>>

\* pd.to_datetime(text, format='%m/%Y'): the first day of the month
to_datetime_my(text) == <<text[2], text[1], 1>>

\* pd.to_datetime(text) of a "MM/DD/YYYY" cell; an empty cell gives NaT
to_datetime(text) == IF text = <<>> THEN NaT ELSE <<text[3], text[1], text[2]>>

\* frame.set_index(pd.to_datetime(frame[name]), inplace=True)
set_index(frame, name) ==
    [frame EXCEPT !.index = [k \in Rows(frame[name]) |-> to_datetime(frame[name][k])]]

\* np.where(STATE.isin(["CA","FL"]), 1, 0)
CAFL(state) == IF state \in {"CA", "FL"} THEN 1 ELSE 0

\* merge_left matching the month and the year of the key only
merge_left_SameMonth(right, key, name, missing) ==
    LET M == {k \in Rows(right.index) :
                 right.index[k][1] = key[1] /\ right.index[k][2] = key[2]}
    IN IF M = {} THEN missing ELSE right[name][CHOOSE k \in M : TRUE]

\* Log_Orig.merge(right, how='left', left_on='ORIG_DTE', right_index=True), read
\* at column name of right for the left row whose key is key: the right row
\* whose index equals the key (the index has no duplicate), or the missing
\* value when there is none
merge_left(right, key, name, missing) ==
    LET M == {k \in Rows(right.index) : right.index[k] = key}
    IN IF M = {} THEN missing ELSE right[name][CHOOSE k \in M : TRUE]

TransformCovariates ==
    /\ pc = "covariates"
    /\ Rates' = set_index(Rates, "Date")
    /\ HPI' = set_index(HPI, "Month")
    /\ LET n    == Rows(Log_Orig.LOAN_ID)
           dte  == [i \in n |-> to_datetime_my(Log_Orig.ORIG_DTE[i])]
           cafl == [i \in n |-> CAFL(Log_Orig["STATE"][i])]
           date == [i \in n |-> merge_left(Rates', dte[i], "Date", <<>>)]
           bench == [i \in n |-> merge_left(Rates', dte[i], "Rate", NaN)]
           sato == [i \in n |-> FSub(Log_Orig.ORIG_RT[i], bench[i])]
       IN Log_Orig' = ("ORIG_DTE" :> dte) @@ ("CA-FL" :> cafl) @@ ("Date" :> date)
                      @@ ("ORIG_BENCHMK" :> bench) @@ ("SATO" :> sato) @@ Log_Orig
    /\ pc' = "remap"
    /\ UNCHANGED <<Orig, Perf>>

----------------------------------------------------------------------------
(* 3. Filtered joins                                                       *)

\* Remap with Puerto Rico sent to another region of the HPI file
Remap_OtherRegion(state) ==
    IF state = "PR" THEN "CA" ELSE IF state = "VI" THEN "HI" ELSE state

\* Log_Orig.ix[Log_Orig['STATE'] == 'PR','STATE'] = 'HI', then the same for 'VI'
Remap(state) == IF state = "PR" THEN "HI" ELSE IF state = "VI" THEN "HI" ELSE state

RemapRegions ==
    /\ pc = "remap"
    /\ Log_Orig' = [Log_Orig EXCEPT
                      !["STATE"] = [i \in Rows(Log_Orig["STATE"]) |-> Remap(Log_Orig["STATE"][i])]]
    /\ pc' = "windows"
    /\ UNCHANGED <<Orig, Perf, Rates, HPI>>

\* datetime.date order
DateLe(a, b) == \/ a[1] < b[1]
                \/ a[1] = b[1] /\ a[2] < b[2]
                \/ a[1] = b[1] /\ a[2] = b[2] /\ a[3] <= b[3]

\* dt.date(origdate.year+years, origdate.month, origdate.day)
AddYears(date, years) == <<date[1] + years, date[2], date[3]>>

\* Slice without its end date
Slice_HalfOpen(frame, startdate, enddate) ==
    {k \in Rows(frame.index) :
        /\ DateLe(startdate, frame.index[k])
        /\ DateLe(frame.index[k], enddate) /\ frame.index[k] # enddate}

\* the rows of frame.ix[startdate:enddate]: a label slice, both ends included
Slice(frame, startdate, enddate) ==
    {k \in Rows(frame.index) :
        DateLe(startdate, frame.index[k]) /\ DateLe(frame.index[k], enddate)}

\* the rows of frame.ix[startdate]
At(frame, startdate) == {k \in Rows(frame.index) : frame.index[k] = startdate}

\* min() of the rows S (not empty) of a column
Min(col, S) == col[CHOOSE k \in S : \A j \in S : FLe(col[k], col[j])]

\* the frame and the column minVal reads
SeriesFrame(series) == IF series = "HPI" THEN HPI ELSE Rates
SeriesColumn(series, state) == IF series = "HPI" THEN state ELSE "Rate"

\* minVal raises: KeyError for a column or a start date that the frame does
\* not have, ValueError for min() of an empty slice
minValRaises(series, origdate, offset, duration, state) ==
    LET frame == SeriesFrame(series)
        startdate == AddYears(origdate, offset)
        enddate == AddYears(origdate, offset + duration)
    IN \/ SeriesColumn(series, state) \notin DOMAIN frame
       \/ Slice(frame, startdate, enddate) = {}
       \/ At(frame, startdate) = {}

\* what minVal returns when it does not raise
minVal(series, origdate, offset, duration, state) ==
    LET frame == SeriesFrame(series)
        col == frame[SeriesColumn(series, state)]
        startdate == AddYears(origdate, offset)
        enddate == AddYears(origdate, offset + duration)
        first == col[CHOOSE k \in At(frame, startdate) : TRUE]
        lowest == Min(col, Slice(frame, startdate, enddate))
    IN IF series = "HPI" THEN FDiv(lowest, first) ELSE FSub(first, lowest)

\* the six statements of the cell, in order: column, series, offset, duration
WindowStatements ==
    << <<"HPI-Y1&2", "HPI", 0, 2>>, <<"HPI-Y3&4", "HPI", 2, 2>>,
       <<"HPI-Y5&6", "HPI", 4, 2>>, <<"Rate-Y1&2", "Rate", 0, 2>>,
       <<"Rate-Y3&4", "Rate", 2, 2>>, <<"Rate-Y5&6", "Rate", 4, 2>> >>

\* statement s raises for some loan: map() builds the whole list first, so the
\* column is not assigned
StatementRaises(s) ==
    \E i \in Rows(Log_Orig.LOAN_ID) :
        minValRaises(s[2], Log_Orig.ORIG_DTE[i], s[3], s[4], Log_Orig["STATE"][i])

\* the statements that run to their end: those before the first that raises
Completed == {k \in DOMAIN WindowStatements :
                 \A j \in 1..k : ~StatementRaises(WindowStatements[j])}

RECURSIVE AddColumns(_, _)
AddColumns(table, K) ==
    IF K = {} THEN table
    ELSE LET k == CHOOSE j \in K : TRUE
             s == WindowStatements[k]
         IN (s[1] :> [i \in Rows(Log_Orig.LOAN_ID) |->
                        minVal(s[2], Log_Orig.ORIG_DTE[i], s[3], s[4], Log_Orig["STATE"][i])])
            @@ AddColumns(table, K \ {k})

\* an exception ends the run: the cells below are not run
WindowFeatures ==
    /\ pc = "windows"
    /\ Log_Orig' = AddColumns(Log_Orig, Completed)
    /\ pc' = IF Completed = DOMAIN WindowStatements THEN "extract" ELSE "failed"
    /\ UNCHANGED <<Orig, Perf, Rates, HPI>>

----------------------------------------------------------------------------
(* Response variable                                                       *)

\* Perf.ix[(Perf['LOAN_ID']==ID) & Perf['ZB_DTE'].notnull(), ...]: the rows kept,
\* in table order
ExitRows(ID) == SelectSeq([k \in Rows(Perf.LOAN_ID) |-> k],
                          LAMBDA k : Perf.LOAN_ID[k] = ID /\ Perf.ZB_DTE[k] # <<>>)

\* extractDefault without the filter on the exit date
extractDefault_AnyDate(ID) ==
    LET a == SelectSeq([k \in Rows(Perf.LOAN_ID) |-> k],
                       LAMBDA k : Perf.LOAN_ID[k] = ID)
    IN IF Len(a) = 0 THEN <<NaN, <<>>>>
       ELSE <<Perf["Zero.Bal.Code"][a[1]], Perf.ZB_DTE[a[1]]>>

\* (code, date) of the first row kept, or (np.NAN, np.NAN)
extractDefault(ID) ==
    LET a == ExitRows(ID)
    IN IF Len(a) = 0 THEN <<NaN, <<>>>>
       ELSE <<Perf["Zero.Bal.Code"][a[1]], Perf.ZB_DTE[a[1]]>>

ExtractDefaults ==
    /\ pc = "extract"
    /\ LET n == Rows(Log_Orig.LOAN_ID)
       IN Log_Orig' =
            ("DEFAULT.CODE" :> [i \in n |-> extractDefault(Log_Orig.LOAN_ID[i])[1]])
            @@ ("DEFAULT.DATE" :>
                  [i \in n |-> to_datetime(extractDefault(Log_Orig.LOAN_ID[i])[2])])
            @@ Log_Orig
    /\ pc' = "response"
    /\ UNCHANGED <<Orig, Perf, Rates, HPI>>

\* ResponseValue raises: dt.date() of the fields of NaT
ResponseRaises(Code, OrigDate, DefDate) ==
    Code \in {Num(3), Num(6), Num(9)} /\ DefDate = NaT

\* ResponseValue with cutoffs that exclude the cutoff date
ResponseValue_Exclusive(Code, OrigDate, DefDate) ==
    IF Code \in {Num(3), Num(6), Num(9)}
    THEN IF ~DateLe(AddYears(OrigDate, 2), DefDate) THEN 1
         ELSE IF ~DateLe(AddYears(OrigDate, 4), DefDate) THEN 2
         ELSE IF ~DateLe(AddYears(OrigDate, 6), DefDate) THEN 3
         ELSE 0
    ELSE 0

\* ResponseValue without the test of the exit code
ResponseValue_AnyCode(Code, OrigDate, DefDate) ==
    IF DateLe(DefDate, AddYears(OrigDate, 2)) THEN 1
    ELSE IF DateLe(DefDate, AddYears(OrigDate, 4)) THEN 2
    ELSE IF DateLe(DefDate, AddYears(OrigDate, 6)) THEN 3
    ELSE 0

ResponseValue(Code, OrigDate, DefDate) ==
    IF Code \in {Num(3), Num(6), Num(9)}
    THEN IF DateLe(DefDate, AddYears(OrigDate, 2)) THEN 1
         ELSE IF DateLe(DefDate, AddYears(OrigDate, 4)) THEN 2
         ELSE IF DateLe(DefDate, AddYears(OrigDate, 6)) THEN 3
         ELSE 0
    ELSE 0

Response ==
    /\ pc = "response"
    /\ LET n == Rows(Log_Orig.LOAN_ID)
           raises == \E i \in n : ResponseRaises(Log_Orig["DEFAULT.CODE"][i],
                                    Log_Orig.ORIG_DTE[i], Log_Orig["DEFAULT.DATE"][i])
       IN /\ Log_Orig' =
               IF raises THEN Log_Orig
               ELSE ("RESPONSE" :>
                       [i \in n |-> ResponseValue(Log_Orig["DEFAULT.CODE"][i],
                                      Log_Orig.ORIG_DTE[i], Log_Orig["DEFAULT.DATE"][i])])
                    @@ Log_Orig
          /\ pc' = IF raises THEN "failed" ELSE "done"
    /\ UNCHANGED <<Orig, Perf, Rates, HPI>>

Next ==
    \/ ImputeCSCORE
    \/ ImputeDTI
    \/ ImputeOCLTV
    \/ GlobalFillDTI
    \/ TransformCovariates
    \/ RemapRegions
    \/ WindowFeatures
    \/ ExtractDefaults
    \/ Response

----------------------------------------------------------------------------
(* The files read by the first cell.  Each specification below draws one   *)
(* part of the input from a bounded set and keeps the rest at the sample   *)
(* values defined here.                                                    *)

\* the acquisition year of the sample ("2005-1-Orig.csv")
BaseYear == 2005

\* the last window ends 4 + 2 years after origination
Horizon == 6

\* loans of the imputation, bucket, reference-series, region and event tables
NumImputeLoans == 3
NumBucketLoans == 2
NumRateLoans == 2
NumRegionLoans == 2
NumEventLoans == 2

\* the shortest benchmark-rate file ends this many years before the horizon
MaxYearsShort == 3

\* longest event log
MaxPerf == 3

\* exit dates run to this many years after the acquisition year
MaxExitYears == 7

\* a frame as pd.read_csv returns it: the index is 0, 1, 2, ...
RangeIndex(n) == [k \in 1..n |-> <<k - 1>>]

\* the dtype read_csv gives a numeric column: int64 when every cell is an
\* integer, float64 when a cell is empty or has a fraction
dtype(col) == IF \A i \in Rows(col) : col[i][2] = 1 THEN "int64" ELSE "float64"

\* n loans: LOAN_ID 101.., the given columns
Loans(n, rt, dte, ocltv, dti, cscore, state) ==
    [LOAN_ID |-> [i \in 1..n |-> 100 + i],
     ORIG_AMT |-> [i \in 1..n |-> Num(55000)],
     ORIG_RT |-> rt, ORIG_DTE |-> dte, OCLTV |-> ocltv, DTI |-> dti,
     CSCORE_B |-> cscore,
     dtypes |-> [ORIG_RT |-> dtype(rt), OCLTV |-> dtype(ocltv), DTI |-> dtype(dti),
                 CSCORE_B |-> dtype(cscore)]] @@ ("STATE" :> state)

Const(n, v) == [i \in 1..n |-> v]

\* the date of row k of a file that has one row for each of the given months
\* of every year from BaseYear, dated on the given day
FileDate(k, months, day) ==
    <<months[((k - 1) % Len(months)) + 1], day, BaseYear + ((k - 1) \div Len(months))>>

\* a benchmark-rate file
RateFile(values, months, day) ==
    [index |-> RangeIndex(Len(values)),
     Date |-> [k \in Rows(values) |-> FileDate(k, months, day)],
     Rate |-> values]

\* an HPI file with the regions HI, CA and FL
HPIFile(hi, ca, fl, months) ==
    [index |-> RangeIndex(Len(hi)),
     Month |-> [k \in Rows(hi) |-> FileDate(k, months, 1)],
     HI |-> hi, CA |-> ca, FL |-> fl]

\* rows of a sample file: January and February of every year to the horizon
SampleRows == 1..(2 * (Horizon + 1))

SampleRates == RateFile([k \in SampleRows |->
                            IF k % 3 = 0 THEN Float(11, 2) ELSE Float(587, 100)],
                        <<1, 2>>, 1)

SampleHPI == HPIFile([k \in SampleRows |-> Num(100 + 10 * (k % 2))],
                     [k \in SampleRows |-> Num(200 + k)],
                     [k \in SampleRows |-> Num(150 - k)], <<1, 2>>)

\* an event log
PerfFile(ids, codes, dates) ==
    [LOAN_ID |-> ids, ZB_DTE |-> dates] @@ ("Zero.Bal.Code" :> codes)

SamplePerf == PerfFile(<<101, 101, 102>>, <<NaN, Num(3), Num(99)>>,
                       << <<>>, <<3, 1, BaseYear + 3>>, <<6, 1, BaseYear + 1>> >>)

Start(orig) ==
    /\ pc = "impute_cscore"
    /\ Orig = orig
    /\ Log_Orig = orig

\* the rest of the input at its sample values
SampleSeries ==
    /\ Rates = SampleRates
    /\ HPI = SampleHPI

\* a column that repeats the given values down the rows
Cycle(n, values) == [i \in 1..n |-> values[((i - 1) % Len(values)) + 1]]

\* imputation: the credit score of every loan varies, with its LTV or its DTI
InitImpute ==
    /\ \E cscore \in [1..NumImputeLoans -> {NaN, Num(640), Num(700)}] :
          \/ \E ocltv \in [1..NumImputeLoans -> {NaN, Num(39), Num(80)}] :
                Start(Loans(NumImputeLoans, Const(NumImputeLoans, Float(25, 4)),
                            Const(NumImputeLoans, <<1, BaseYear>>), ocltv,
                            Cycle(NumImputeLoans, <<NaN, Num(30), Num(44)>>), cscore,
                            Const(NumImputeLoans, "FL")))
          \/ \E dti \in [1..NumImputeLoans -> {NaN, Num(30), Num(44)}] :
                Start(Loans(NumImputeLoans, Const(NumImputeLoans, Float(25, 4)),
                            Const(NumImputeLoans, <<1, BaseYear>>),
                            Cycle(NumImputeLoans, <<Num(39), NaN, Num(80)>>), dti, cscore,
                            Const(NumImputeLoans, "FL")))
    /\ Perf = SamplePerf
    /\ SampleSeries

SpecImpute == InitImpute /\ [][Next]_vars

\* bucket keys: the origination rate, the LTV and the credit score vary
InitBuckets ==
    /\ \E rt \in [1..NumBucketLoans -> {NaN, Float(25, 4), Float(27, 5)}],
          ocltv \in [1..NumBucketLoans -> {NaN, Num(39), Num(80)}],
          cscore \in [1..NumBucketLoans -> {NaN, Num(700)}] :
          Start(Loans(NumBucketLoans, rt, Const(NumBucketLoans, <<1, BaseYear>>),
                      ocltv, Cycle(NumBucketLoans, <<NaN, Num(30)>>), cscore,
                      Const(NumBucketLoans, "CA")))
    /\ Perf = SamplePerf
    /\ SampleSeries

SpecBuckets == InitBuckets /\ [][Next]_vars

\* reference series: the benchmark-rate file varies in its length, its values
\* and the day of the month its rows are dated on (it has a row for January
\* only), and the loans in their origination month
InitRate ==
    /\ \E months \in [1..NumRateLoans -> {1, 2}] :
          Start(Loans(NumRateLoans, Cycle(NumRateLoans, <<Float(25, 4), Float(11, 2)>>),
                      [i \in 1..NumRateLoans |-> <<months[i], BaseYear>>],
                      Const(NumRateLoans, Num(39)), Const(NumRateLoans, Num(30)),
                      Const(NumRateLoans, Num(700)), Const(NumRateLoans, "CA")))
    /\ \E years \in (Horizon + 1 - MaxYearsShort)..(Horizon + 1), day \in {1, 15} :
          \E values \in [1..years -> {Num(5), Num(6)}] :
             Rates = RateFile(values, <<1>>, day)
    /\ HPI = SampleHPI
    /\ Perf = SamplePerf

SpecRate == InitRate /\ [][Next]_vars

\* an HPI column with one low value
Dip(at) == [k \in SampleRows |-> IF k = at THEN Num(100) ELSE Num(120)]

\* regions: the loans vary in their state and origination month, and the HI
\* column of the HPI file in the place of its low value
InitRegion ==
    /\ \E state \in [1..NumRegionLoans -> {"PR", "VI", "HI", "CA"}],
          months \in [1..NumRegionLoans -> {1, 2}] :
          Start(Loans(NumRegionLoans, Const(NumRegionLoans, Float(25, 4)),
                      [i \in 1..NumRegionLoans |-> <<months[i], BaseYear>>],
                      Const(NumRegionLoans, Num(39)), Const(NumRegionLoans, Num(30)),
                      Const(NumRegionLoans, Num(700)), state))
    /\ \E at \in SampleRows \cup {0} :
          HPI = HPIFile(Dip(at), [k \in SampleRows |-> Num(200 + k)],
                        [k \in SampleRows |-> Num(150 - k)], <<1, 2>>)
    /\ Rates = SampleRates
    /\ Perf = SamplePerf

SpecRegion == InitRegion /\ [][Next]_vars

\* event rows: no exit, a qualifying exit, an exit that does not qualify
EventKinds == { <<NaN, <<>>>>, <<Num(3), <<3, 1, BaseYear + 1>>>>,
                <<Num(99), <<6, 1, BaseYear + 3>>>> }

\* event log: up to MaxPerf rows, each of one of the loans
InitEvents ==
    /\ Start(Loans(NumEventLoans, Const(NumEventLoans, Float(25, 4)),
                   Const(NumEventLoans, <<1, BaseYear>>),
                   Const(NumEventLoans, Num(39)), Const(NumEventLoans, Num(30)),
                   Const(NumEventLoans, Num(700)), Const(NumEventLoans, "CA")))
    /\ \E n \in 0..MaxPerf :
          \E ids \in [1..n -> {100 + i : i \in 1..NumEventLoans}],
             kinds \in [1..n -> EventKinds] :
             Perf = PerfFile(ids, [k \in 1..n |-> kinds[k][1]],
                             [k \in 1..n |-> kinds[k][2]])
    /\ SampleSeries

SpecEvents == InitEvents /\ [][Next]_vars

\* exit dates: the first two days of January and February of every year from
\* BaseYear, and no date
ExitDates == {<<>>} \cup {<<m, d, BaseYear + y>> :
                            m \in {1, 2}, d \in {1, 2}, y \in 0..MaxExitYears}

\* response: one loan, originated in January or February, and at most one
\* event row for it, of any code and exit date
InitResponse ==
    /\ \E month \in {1, 2} :
          Start(Loans(1, <<Float(25, 4)>>, << <<month, BaseYear>> >>, <<Num(39)>>,
                      <<Num(30)>>, <<Num(700)>>, <<"CA">>))
    /\ \/ Perf = PerfFile(<<>>, <<>>, <<>>)
       \/ \E code \in {NaN, Num(3), Num(6), Num(9), Num(99)}, date \in ExitDates :
             Perf = PerfFile(<<101>>, <<code>>, <<date>>)
    /\ SampleSeries

SpecResponse == InitResponse /\ [][Next]_vars

----------------------------------------------------------------------------
(* Imputation                                                              *)

\* the rows of the bucket of row i that hold a value in column name
Known(table, fillVar, name, i) ==
    {j \in Rows(table[name]) :
        /\ Buckets(table, j, fillVar) = Buckets(table, i, fillVar)
        /\ ~isnan(table[name][j])}

\* a step of the pass on column name: every row that was missing the value and
\* whose bucket held one now holds the mean of the values the bucket held
PassFillsMean(fillVar, name) ==
    \A i \in Rows(Log_Orig[name]) :
        LET known == Known(Log_Orig, fillVar, name, i)
        IN (isnan(Log_Orig[name][i]) /\ known # {}) =>
              /\ ~isnan(Log_Orig'[name][i])
              /\ FMul(Log_Orig'[name][i], Num(Cardinality(known)))
                    = SumOver(Log_Orig[name], known)

\* C4: after a bucketed imputation pass on a field, every record that was
\* missing the field and whose bucket holds at least one value of it holds the
\* arithmetic mean of the values the bucket held before the pass.
C4_BucketMean ==
    [][/\ pc = "impute_cscore" => PassFillsMean("CSCORE", "CSCORE_B")
       /\ pc = "impute_dti" => PassFillsMean("DTI", "DTI")
       /\ pc = "impute_ocltv" => PassFillsMean("OCLTV", "OCLTV")]_vars

\* the credit-score pass has filled a missing score with the mean of the two
\* different scores of its bucket
C4_Witness ==
    /\ pc = "impute_dti"
    /\ \E i \in Rows(Orig.CSCORE_B) :
          isnan(Orig.CSCORE_B[i]) /\ Log_Orig.CSCORE_B[i] = Num(670)

\* column name of the file has no value at all
ColumnEmpty(name) == \A i \in Rows(Orig[name]) : isnan(Orig[name][i])

\* C5: for each imputed field (credit score, DTI, LTV), a record whose bucket
\* holds no value of the field is still missing it after the bucketed pass, and
\* once the global-mean fallback has run no record is missing the field, unless
\* the whole column is missing.
C5_FallbackFillsEveryField ==
    /\ [][/\ pc = "impute_cscore" =>
               \A i \in Rows(Log_Orig.CSCORE_B) :
                  (isnan(Log_Orig.CSCORE_B[i])
                     /\ Known(Log_Orig, "CSCORE", "CSCORE_B", i) = {})
                  => isnan(Log_Orig'.CSCORE_B[i])
          /\ pc = "impute_dti" =>
               \A i \in Rows(Log_Orig.DTI) :
                  (isnan(Log_Orig.DTI[i]) /\ Known(Log_Orig, "DTI", "DTI", i) = {})
                  => isnan(Log_Orig'.DTI[i])
          /\ pc = "impute_ocltv" =>
               \A i \in Rows(Log_Orig.OCLTV) :
                  (isnan(Log_Orig.OCLTV[i]) /\ Known(Log_Orig, "OCLTV", "OCLTV", i) = {})
                  => isnan(Log_Orig'.OCLTV[i])]_vars
    /\ [](pc \notin {"impute_cscore", "impute_dti", "impute_ocltv", "fill_dti"} =>
            \A name \in {"CSCORE_B", "DTI", "OCLTV"} :
               \/ ColumnEmpty(name)
               \/ \A i \in Rows(Log_Orig[name]) : ~isnan(Log_Orig[name][i]))

\* column col with every missing value replaced by the mean of col over the
\* rows that have the same bucket key in the table keys
FilledBy(keys, fillVar, col) ==
    [i \in Rows(col) |->
        IF isnan(col[i])
        THEN meanOf(col, {j \in Rows(col) :
                            Buckets(keys, j, fillVar) = Buckets(keys, i, fillVar)})
        ELSE col[i]]

\* the file's table with the credit scores as the credit-score pass leaves
\* them, its keys formed from the LTV values of the file
ScoresImputed ==
    [Orig EXCEPT !.CSCORE_B = FilledBy(Orig, "CSCORE", Orig.CSCORE_B)]

\* the global-mean sweep of a column
Swept(col) == [i \in Rows(col) |-> IF isnan(col[i]) THEN mean(col) ELSE col[i]]

\* C11: the imputation passes run in the order credit score, DTI, LTV, global
\* sweep; the credit-score pass forms its bucket keys from the LTV values of
\* the file, before any imputation, and the DTI and LTV passes form theirs from
\* the credit scores as the credit-score pass left them.
C11_PassOrder ==
    [][/\ pc = "impute_cscore" =>
            /\ pc' = "impute_dti"
            /\ Log_Orig'.CSCORE_B = FilledBy(Orig, "CSCORE", Orig.CSCORE_B)
            /\ Log_Orig'.DTI = Orig.DTI
            /\ Log_Orig'.OCLTV = Orig.OCLTV
       /\ pc = "impute_dti" =>
            /\ pc' = "impute_ocltv"
            /\ Log_Orig'.DTI = FilledBy(ScoresImputed, "DTI", Orig.DTI)
            /\ Log_Orig'.CSCORE_B = ScoresImputed.CSCORE_B
            /\ Log_Orig'.OCLTV = Orig.OCLTV
       /\ pc = "impute_ocltv" =>
            /\ pc' = "fill_dti"
            /\ Log_Orig'.OCLTV = FilledBy(ScoresImputed, "OCLTV", Orig.OCLTV)
            /\ Log_Orig'.CSCORE_B = ScoresImputed.CSCORE_B
            /\ Log_Orig'.DTI = Log_Orig.DTI
       /\ pc = "fill_dti" =>
            /\ pc' = "covariates"
            /\ Log_Orig'.DTI = Swept(FilledBy(ScoresImputed, "DTI", Orig.DTI))
            /\ Log_Orig'.CSCORE_B = ScoresImputed.CSCORE_B
            /\ Log_Orig'.OCLTV = Log_Orig.OCLTV]_vars

\* the order matters in this run: the three bucketed passes have run, a score
\* missing in the file was imputed, and the DTI pass filled a missing DTI with
\* a value other than the one the keys of the file's credit scores give
C11_Witness ==
    /\ pc = "fill_dti"
    /\ \E i \in Rows(Orig.DTI) :
          /\ isnan(Orig.CSCORE_B[i])
          /\ ~isnan(Log_Orig.CSCORE_B[i])
          /\ isnan(Orig.DTI[i])
          /\ ~isnan(Log_Orig.DTI[i])
          /\ Log_Orig.DTI[i] # FilledBy(Orig, "DTI", Orig.DTI)[i]

\* a bucketing value with the table mean of its column in place of a missing one
Substituted(col, x) == IF isnan(col[x]) THEN mean(col) ELSE col[x]

\* the passes that are about to form their bucket keys from the table
ScorePassNext == pc = "impute_cscore"
OtherPassNext == pc \in {"impute_dti", "impute_ocltv"}

\* C10 as stated: a missing bucketing field, the score or LTV field or the rate
\* field, is replaced by the table-wide mean of that field, rounded at the
\* field's granularity, so the record gets the key of the records whose values
\* round to the substituted ones.
C10_SubstitutesEitherField ==
    \A x \in Rows(Log_Orig.LOAN_ID) :
        /\ (ScorePassNext /\ (isnan(Log_Orig.OCLTV[x]) \/ isnan(Log_Orig.ORIG_RT[x]))) =>
              Buckets(Log_Orig, x, "CSCORE") =
                 <<"OCLTV", Coarsen(Substituted(Log_Orig.OCLTV, x), 20),
                   "Rate", round(Substituted(Log_Orig.ORIG_RT, x))>>
        /\ (OtherPassNext /\ (isnan(Log_Orig.CSCORE_B[x]) \/ isnan(Log_Orig.ORIG_RT[x]))) =>
              \A fillVar \in {"DTI", "OCLTV"} :
                 Buckets(Log_Orig, x, fillVar) =
                    <<"FICO", Coarsen(Substituted(Log_Orig.CSCORE_B, x), 50),
                      "Rate", round(Substituted(Log_Orig.ORIG_RT, x))>>

\* two rows have the same bucket key in the pass for fillVar
SameKey(fillVar, x, y) == Buckets(Log_Orig, x, fillVar) = Buckets(Log_Orig, y, fillVar)

\* C10, amended: only a missing score or LTV bucketing field is replaced by the
\* table-wide mean of that field, rounded at the field's granularity; the rate
\* is rounded as it is, and a missing rate stays missing in the key. So a record
\* missing its score or LTV field shares its key exactly with the records whose
\* value rounds to the rounded mean and whose rounded rate is the same.
C10_SubstitutesScoreOrLTV ==
    \A x \in Rows(Log_Orig.LOAN_ID) :
        /\ (ScorePassNext /\ isnan(Log_Orig.OCLTV[x])) =>
              /\ Buckets(Log_Orig, x, "CSCORE") =
                    <<"OCLTV", Coarsen(mean(Log_Orig.OCLTV), 20),
                      "Rate", round(Log_Orig.ORIG_RT[x])>>
              /\ \A y \in Rows(Log_Orig.LOAN_ID) :
                    ~isnan(Log_Orig.OCLTV[y]) =>
                       (SameKey("CSCORE", x, y) <=>
                          /\ Coarsen(Log_Orig.OCLTV[y], 20)
                                = Coarsen(mean(Log_Orig.OCLTV), 20)
                          /\ round(Log_Orig.ORIG_RT[x]) = round(Log_Orig.ORIG_RT[y]))
        /\ (OtherPassNext /\ isnan(Log_Orig.CSCORE_B[x])) =>
              \A fillVar \in {"DTI", "OCLTV"} :
                 /\ Buckets(Log_Orig, x, fillVar) =
                       <<"FICO", Coarsen(mean(Log_Orig.CSCORE_B), 50),
                         "Rate", round(Log_Orig.ORIG_RT[x])>>
                 /\ \A y \in Rows(Log_Orig.LOAN_ID) :
                       ~isnan(Log_Orig.CSCORE_B[y]) =>
                          (SameKey(fillVar, x, y) <=>
                             /\ Coarsen(Log_Orig.CSCORE_B[y], 50)
                                   = Coarsen(mean(Log_Orig.CSCORE_B), 50)
                             /\ round(Log_Orig.ORIG_RT[x]) = round(Log_Orig.ORIG_RT[y]))

\* the credit-score pass has filled the missing score of a record that was
\* missing its LTV too with the score of the record whose LTV rounds to the
\* rounded table mean
C10_Witness ==
    /\ pc = "impute_dti"
    /\ \E x, y \in Rows(Orig.LOAN_ID) :
          /\ isnan(Orig.OCLTV[x]) /\ isnan(Orig.CSCORE_B[x])
          /\ Orig.OCLTV[y] = Num(39) /\ Orig.CSCORE_B[y] = Num(700)
          /\ Log_Orig.CSCORE_B[x] = Num(700)

----------------------------------------------------------------------------
(* Response variable                                                       *)

\* the position of a date in the calendar, counted in days of 31-day months
Day(date) == (date[1] * 12 + date[2]) * 31 + date[3]

\* the origination date of loan i, read from the file: the first of the month
Origination(i) == <<Orig.ORIG_DTE[i][2], Orig.ORIG_DTE[i][1], 1>>

\* the cutoff date: years after the origination of loan i
Cutoff(i, years) == <<Origination(i)[1] + years, Origination(i)[2], 1>>

Qualifying == {Num(3), Num(6), Num(9)}

Labelled == pc = "done"

\* C1: for an exit code in {3, 6, 9}, the label is 1 if the exit date is on or
\* before origination + 2 years, otherwise 2 if on or before origination + 4
\* years, otherwise 3 if on or before origination + 6 years, otherwise 0; an exit
\* on the cutoff date itself falls before the cutoff, the day after it falls after.
C1_ResponseByCutoff ==
    Labelled =>
       \A i \in Rows(Log_Orig.LOAN_ID) :
          LET exit == Log_Orig["DEFAULT.DATE"][i]
              label == Log_Orig.RESPONSE[i]
          IN Log_Orig["DEFAULT.CODE"][i] \in Qualifying =>
                /\ label = 1 <=> Day(exit) <= Day(Cutoff(i, 2))
                /\ label = 2 <=> /\ Day(Cutoff(i, 2)) < Day(exit)
                                 /\ Day(exit) <= Day(Cutoff(i, 4))
                /\ label = 3 <=> /\ Day(Cutoff(i, 4)) < Day(exit)
                                 /\ Day(exit) <= Day(Cutoff(i, 6))
                /\ label = 0 <=> Day(Cutoff(i, 6)) < Day(exit)
                /\ exit = Cutoff(i, 2) => label = 1
                /\ exit = <<Cutoff(i, 2)[1], Cutoff(i, 2)[2], 2>> => label = 2

\* a loan with exit code 3 that left on the day after its two-year cutoff is
\* labelled 2
C1_Witness ==
    /\ Labelled
    /\ \E i \in Rows(Log_Orig.LOAN_ID) :
          /\ Log_Orig["DEFAULT.CODE"][i] = Num(3)
          /\ Log_Orig["DEFAULT.DATE"][i] = <<Cutoff(i, 2)[1], Cutoff(i, 2)[2], 2>>
          /\ Log_Orig.RESPONSE[i] = 2

\* the event rows of loan i that have an exit date
Exits(i) == {k \in Rows(Perf.LOAN_ID) :
                Perf.LOAN_ID[k] = Orig.LOAN_ID[i] /\ Perf.ZB_DTE[k] # <<>>}

\* C2: the label is 0 for every loan whose extracted exit code is undefined (no
\* exit record found) or is not one of 3, 6, 9, whatever its dates.
C2_NoQualifyingExitIsZero ==
    Labelled =>
       \A i \in Rows(Log_Orig.LOAN_ID) :
          /\ Exits(i) = {} => isnan(Log_Orig["DEFAULT.CODE"][i])
          /\ Log_Orig["DEFAULT.CODE"][i] \notin Qualifying => Log_Orig.RESPONSE[i] = 0

\* a loan that left with code 99 before its two-year cutoff is labelled 0
C2_Witness ==
    /\ Labelled
    /\ \E i \in Rows(Log_Orig.LOAN_ID) :
          /\ Log_Orig["DEFAULT.CODE"][i] = Num(99)
          /\ Day(Log_Orig["DEFAULT.DATE"][i]) <= Day(Cutoff(i, 2))
          /\ Log_Orig.RESPONSE[i] = 0

Extracted == pc \in {"response", "done"}

\* C3: the exit code and exit date of a loan are those of the first row of the
\* event log, in table order, that has the loan's identifier and an exit date,
\* whatever rows of the loan without an exit date come before it; they are
\* undefined when there is no such row; and the event log never changes.
C3_FirstExitRow ==
    /\ [](Extracted =>
            \A i \in Rows(Log_Orig.LOAN_ID) :
               IF Exits(i) = {}
               THEN /\ isnan(Log_Orig["DEFAULT.CODE"][i])
                    /\ Log_Orig["DEFAULT.DATE"][i] = NaT
               ELSE \E k \in Exits(i) :
                       /\ \A j \in Exits(i) : k <= j
                       /\ Log_Orig["DEFAULT.CODE"][i] = Perf["Zero.Bal.Code"][k]
                       /\ Log_Orig["DEFAULT.DATE"][i] =
                             <<Perf.ZB_DTE[k][3], Perf.ZB_DTE[k][1], Perf.ZB_DTE[k][2]>>)
    /\ [][Perf' = Perf]_vars

\* a loan whose first event row has no exit date and whose later rows have two
\* different exits: the first of the two is extracted
C3_Witness ==
    /\ Extracted
    /\ \E i \in Rows(Log_Orig.LOAN_ID) :
          \E k \in Exits(i), j \in Exits(i), n \in Rows(Perf.LOAN_ID) :
             /\ n < k /\ k < j
             /\ Perf.LOAN_ID[n] = Orig.LOAN_ID[i] /\ Perf.ZB_DTE[n] = <<>>
             /\ Perf["Zero.Bal.Code"][k] # Perf["Zero.Bal.Code"][j]
             /\ Log_Orig["DEFAULT.CODE"][i] = Perf["Zero.Bal.Code"][k]

----------------------------------------------------------------------------
(* Covariates and window features                                          *)

Transformed == pc \notin {"impute_cscore", "impute_dti", "impute_ocltv", "fill_dti",
                          "covariates"}

\* the rows of the benchmark-rate file dated in the origination month of loan i
MonthRows(i) == {k \in Rows(Rates.Date) :
                    /\ Rates.Date[k][1] = Orig.ORIG_DTE[i][1]
                    /\ Rates.Date[k][3] = Orig.ORIG_DTE[i][2]}

\* the rows dated on the first day of that month
FirstDayRows(i) == {k \in MonthRows(i) : Rates.Date[k][2] = 1}

WindowStart(i, s) == <<Origination(i)[1] + s[3], Origination(i)[2], 1>>
WindowEnd(i, s) == <<Origination(i)[1] + s[3] + s[4], Origination(i)[2], 1>>

FrameOf(s) == IF s[2] = "HPI" THEN HPI ELSE Rates

StartRows(i, s) == {k \in Rows(FrameOf(s).index) : FrameOf(s).index[k] = WindowStart(i, s)}

WindowRows(i, s) == {k \in Rows(FrameOf(s).index) :
                        /\ Day(WindowStart(i, s)) <= Day(FrameOf(s).index[k])
                        /\ Day(FrameOf(s).index[k]) <= Day(WindowEnd(i, s))}

PastWindows == pc \in {"extract", "response", "done", "failed"}

\* C7: when the start date of a window is absent from the reference series, the
\* feature of that loan and window is missing, nothing fails, and the window
\* features of the other loans and the later stages are still computed.
C7_AbsentStartIsMissing ==
    PastWindows =>
       /\ pc # "failed"
       /\ \A k \in DOMAIN WindowStatements :
             /\ WindowStatements[k][1] \in DOMAIN Log_Orig
             /\ \A i \in Rows(Log_Orig.LOAN_ID) :
                   isnan(Log_Orig[WindowStatements[k][1]][i])
                      <=> StartRows(i, WindowStatements[k]) = {}

\* the window statements that have assigned their column
Assigned == {k \in DOMAIN WindowStatements : WindowStatements[k][1] \in DOMAIN Log_Orig}

\* C8: two loans with the same origination date, one in PR or VI and the other in
\* HI, have the same three HPI window features and the same three rate window
\* features.
C8_RemappedAsHawaii ==
    PastWindows =>
       \A i, j \in Rows(Log_Orig.LOAN_ID) :
          (/\ Orig.ORIG_DTE[i] = Orig.ORIG_DTE[j]
           /\ Orig["STATE"][i] \in {"PR", "VI"}
           /\ Orig["STATE"][j] = "HI") =>
             /\ pc # "failed"
             /\ \A k \in DOMAIN WindowStatements :
                   Log_Orig[WindowStatements[k][1]][i] = Log_Orig[WindowStatements[k][1]][j]

\* a PR loan and an HI loan of the same month, whose first HPI window has its
\* low value after its start
C8_Witness ==
    /\ pc = "done"
    /\ \E i, j \in Rows(Log_Orig.LOAN_ID) :
          /\ Orig.ORIG_DTE[i] = Orig.ORIG_DTE[j]
          /\ Orig["STATE"][i] = "PR" /\ Orig["STATE"][j] = "HI"
          /\ Log_Orig["HPI-Y1&2"][i] = Float(5, 6)

RateStatements == {k \in DOMAIN WindowStatements : WindowStatements[k][2] = "Rate"}

\* C9: wherever the rate window feature is defined, it is >= 0, and it is 0 if
\* and only if the benchmark rate at the start date of the window is the lowest
\* benchmark rate of the window, both end dates included.
C9_RateDropNonNegative ==
    \A k \in RateStatements \cap Assigned :
       \A i \in Rows(Log_Orig.LOAN_ID) :
          LET v == Log_Orig[WindowStatements[k][1]][i]
          IN /\ ~isnan(v)
             /\ v[1] >= 0
             /\ v[1] = 0 <=>
                   \A a \in StartRows(i, WindowStatements[k]),
                      b \in WindowRows(i, WindowStatements[k]) :
                      FLe(Rates.Rate[a], Rates.Rate[b])

\* a loan whose first rate window has its lowest rate on its end date only, and
\* whose second window has it at its start
C9_Witness ==
    /\ pc = "done"
    /\ \E i \in Rows(Log_Orig.LOAN_ID) :
          /\ Rates.Rate[1] = Num(6) /\ Rates.Rate[2] = Num(6) /\ Rates.Rate[3] = Num(5)
          /\ Log_Orig["Rate-Y1&2"][i] = Num(1)
          /\ Log_Orig["Rate-Y3&4"][i] = Num(0)

====
